---- MODULE Spec2Model ----
(***************************************************************************)
(* Model of the DLC library backend (routes/bookRoutes.js, middleware/     *)
(* auth.js, config/db.js).  The PostgreSQL tables are the shared state;    *)
(* every HTTP request is a process that advances one pool.query at a time, *)
(* so statements of different requests interleave exactly where the        *)
(* handlers await.                                                         *)
(***************************************************************************)
EXTENDS Integers, Sequences, FiniteSets, TLC

\* ---------------------------------------------------------------- bounds
MaxReq == 2          \* requests in flight at the same time
MaxBooks == 1        \* rows the books SERIAL may hand out
MaxRecords == 2      \* rows the borrow_records SERIAL may hand out
MaxElapsed == 1      \* clock ticks that may pass during one behaviour
MaxReg == 2          \* register requests in flight at the same time
MaxUsers == 3        \* rows the users SERIAL may hand out
MaxBoots == 2        \* times the server is started

\* ------------------------------------------------------- program constants
LOAN_DAYS == 7       \* dueDate.setDate(borrowedAt.getDate() + 7)

\* ------------------------------------------------------------ value spaces
NULL == -1           \* SQL NULL in a TIMESTAMP column
NoBook == "none"     \* the SELECT on books returned no row
Omitted == ""        \* a request body field that is absent (or empty): falsy

\* Token payloads { id, role } that verifyToken attaches to req.user.
Principals ==
  { [id |-> 1, role |-> "student"],
    [id |-> 2, role |-> "student"],
    [id |-> 3, role |-> "admin"] }

\* A caller that sends no (valid) Bearer token.
Anonymous == [id |-> 0, role |-> "none"]
Callers == Principals \cup {Anonymous}

\* Status strings an admin may put in a request body.
StatusInputs == { Omitted, "available", "borrowed", "lost" }

ReqIds == 1..MaxReq
BookIds == 1..MaxBooks
RegIds == 1..MaxReg

\* const email = 'ybh@example.com' of the default admin
SEED_EMAIL == "ybh@example.com"

\* Addresses a register request may carry.
Emails == { SEED_EMAIL, "student@example.com" }

\* Values of the role field of a register request.
RoleInputs == { Omitted, "student", "admin" }

\* ------------------------------------------------------------------ clock
\* Time is counted in ticks, the resolution of the clock; a day is shortened
\* to TicksPerDay ticks and tick 0 is the first tick of January 1st.  Only
\* the calendar arithmetic of Date matters.
TicksPerDay == 2
MonthLens == <<31, 28, 31, 30>>

\* Instants at which a behaviour may begin: the first tick of January 10th
\* and the last tick of January 31st.
MidMonth == 9 * TicksPerDay
MonthEnd == 31 * TicksPerDay - 1
StartTimes == { MidMonth, MonthEnd }

DayOf(t) == t \div TicksPerDay

RECURSIVE DayInMonth(_, _)
DayInMonth(d, m) ==
  IF m > Len(MonthLens) \/ d < MonthLens[m] THEN d + 1
  ELSE DayInMonth(d - MonthLens[m], m + 1)

\* Date.prototype.getDate(): the day of the month, 1..31.
getDate(t) == DayInMonth(DayOf(t), 1)

\* Date.prototype.setDate(n) applied to the instant t: same month and time
\* of day, day of month n; values past the month's end roll over.
setDate(t, n) == t + (n - getDate(t)) * TicksPerDay


\* ------------------------------------------------------------------ state
VARIABLES
  books,           \* table books: id -> status, NoBook where no row exists
  bookSeq,         \* books_id_seq
  borrow_records,  \* table borrow_records: a set of rows
  recSeq,          \* borrow_records_id_seq
  now,             \* the server clock
  ticks,           \* clock ticks that may still pass
  req,             \* the requests in flight: slot -> handler state
  grp,             \* history: the current (or last) period with requests in flight
  prev,            \* history: the period before it, when it was a single request
  hist,            \* history: per book, the kind of the last successful borrow/return
  resp,            \* the answer the last step sent, if it sent one
  users,           \* table users: a set of rows
  userSeq,         \* users_id_seq
  reg,             \* the register requests in flight: slot -> handler state
  seed,            \* where seedAdmin stands
  boots,           \* times the server was started
  authResp,        \* the answer the last step of /api/auth sent, if any
  page             \* the body the last step answered a catalogue read with

vars == <<books, bookSeq, borrow_records, recSeq, now, ticks, req, grp, prev, hist, resp,
          users, userSeq, reg, seed, boots, authResp, page>>
db == <<books, bookSeq, borrow_records, recSeq>>
lib == <<books, bookSeq, borrow_records, recSeq, now, ticks, req, grp, prev, hist, resp,
         page>>
auth == <<users, userSeq, reg, seed, boots, authResp>>

IdleReq ==
  [ op |-> "none", user |-> 0, role |-> "none", bookId |-> 0,
    status |-> Omitted, pc |-> "idle",
    rec |-> 0, borrow |-> 0, at |-> NULL, dueDate |-> NULL,
    orig |-> NoBook ]

\* A period is a maximal stretch of time during which some request is in
\* flight; a request is in flight from its first statement to its answer.
\* grp records a period made of n borrow requests for one book, all arrived
\* before the first answer, or made of one return request; any other period
\* is NoPeriod.  avail: the book's status was 'available' when the first
\* request arrived; seq0: the value of the borrow_records SERIAL then; done
\* of the n were answered, ok with 200 and rej with 400; rec: the row a
\* successful borrow inserted.
NoPeriod ==
  [ n |-> 0, op |-> "none", book |-> 0, user |-> 0, avail |-> FALSE,
    seq0 |-> 0, done |-> 0, ok |-> 0, rej |-> 0, rec |-> 0 ]

NoResponse == [ op |-> "none", user |-> 0, role |-> "none", book |-> 0, code |-> 0 ]

\* no catalogue read was answered; filter: the status query parameter
NoPage == [ op |-> "none", book |-> 0, filter |-> Omitted, code |-> 0, rows |-> {} ]

\* The tables as createTables leaves them, and no request in flight.
Fresh ==
  /\ books = [b \in BookIds |-> NoBook]
  /\ bookSeq = 0
  /\ borrow_records = {}
  /\ recSeq = 0
  /\ req = [i \in ReqIds |-> IdleReq]
  /\ grp = NoPeriod
  /\ prev = NoPeriod
  /\ hist = [b \in BookIds |-> "none"]
  /\ resp = NoResponse
  /\ page = NoPage

IdleReg == [ pc |-> "idle", email |-> Omitted, role |-> "none" ]

\* no token: the payload of a response that carries none
NoAuthResponse == [ code |-> 0, email |-> Omitted, id |-> 0, role |-> "none" ]

\* The users table holds the accounts of the Principals, seedAdmin has
\* finished and no register request is in flight.
Accounts ==
  { [ id |-> 1, email |-> "student@example.com", role |-> "student" ],
    [ id |-> 2, email |-> "student2@example.com", role |-> "student" ],
    [ id |-> 3, email |-> SEED_EMAIL, role |-> "admin" ] }

Seeded ==
  /\ users = Accounts
  /\ userSeq = 3
  /\ reg = [j \in RegIds |-> IdleReg]
  /\ seed = "done"
  /\ boots = 1
  /\ authResp = NoAuthResponse

\* All requests of a behaviour are served within one clock tick: every
\* timestamp is the same, so ORDER BY borrowed_at leaves every active row
\* of a book eligible.
Init ==
  /\ Fresh
  /\ Seeded
  /\ now = MidMonth
  /\ ticks = 0

\* The clock may advance while requests are served.
InitClock ==
  /\ Fresh
  /\ Seeded
  /\ now \in StartTimes
  /\ ticks = MaxElapsed

\* The first start of the server on an empty database: createTables has
\* run, app.listen has called back and seedAdmin is about to run.
InitUsers ==
  /\ Fresh
  /\ now = MidMonth
  /\ ticks = 0
  /\ users = {}
  /\ userSeq = 0
  /\ reg = [j \in RegIds |-> IdleReg]
  /\ seed = "s_select"
  /\ boots = 1
  /\ authResp = NoAuthResponse

\* ------------------------------------------------------------ SQL helpers
\* rows of borrow_records with book_id = b AND returned_at IS NULL
ActiveRecords(b) ==
  { r \in borrow_records : r.book_id = b /\ r.returned_at = NULL }

\* ... ORDER BY borrowed_at DESC LIMIT 1: the candidates for the single row
LatestActive(b) ==
  { r \in ActiveRecords(b) :
      \A q \in ActiveRecords(b) : q.borrowed_at <= r.borrowed_at }

\* new Date(): the clock may have moved on since it was last read
ClockReads == { t \in {now, now + 1} : t - now <= ticks }

\* the clock after t was read from it
Tick(t) ==
  /\ now' = t
  /\ ticks' = ticks - (t - now)

\* UPDATE books SET status = st WHERE id = b (no row: nothing happens)
SetStatus(b, st) ==
  books' = [books EXCEPT ![b] = IF @ = NoBook THEN NoBook ELSE st]

\* ---------------------------------------------------------------- history
InFlight == { i \in ReqIds : req[i].pc # "idle" }
Quiet == InFlight = {}

\* the period after a request (op, caller p, book b) has arrived
Started(op, p, b) ==
  IF Quiet THEN
    IF op \in {"borrow", "return"}
    THEN [ NoPeriod EXCEPT !.n = 1, !.op = op, !.book = b, !.user = p.id,
                           !.avail = (op = "borrow" /\ books[b] = "available"),
                           !.seq0 = recSeq ]
    ELSE NoPeriod
  ELSE IF grp.op # "borrow" \/ op # "borrow" \/ grp.done > 0 \/ grp.book # b
       THEN NoPeriod
  ELSE [ grp EXCEPT !.n = @ + 1, !.user = 0 ]

\* the period g after one of its requests was answered with code
Answered(g, code, rec) ==
  IF g.n = 0 THEN NoPeriod
  ELSE [ g EXCEPT !.done = @ + 1,
                  !.ok = IF code = 200 THEN @ + 1 ELSE @,
                  !.rej = IF code = 400 THEN @ + 1 ELSE @,
                  !.rec = IF rec # 0 THEN rec ELSE @ ]

\* the period before, kept when it was a single borrow request for an
\* available book
Before ==
  IF ~Quiet THEN prev
  ELSE IF grp.n = 1 /\ grp.op = "borrow" /\ grp.avail THEN grp
  ELSE NoPeriod

\* a book's successful borrow and return answers, in the order they were
\* sent: h is the kind of the last one, or "broken" once two of the same
\* kind have followed each other
Alternate(h, op, code) ==
  IF code # 200 \/ op \notin {"borrow", "return"} THEN h
  ELSE IF h \in {op, "broken"} THEN "broken"
  ELSE op

\* ------------------------------------------------------------- middleware
\* verifyToken: a request without a valid Bearer token is answered 401.
verifyToken(p) == p.role # "none"

\* a requireAdmin that lets every authenticated caller through
requireAdminAnyone(p) == TRUE

\* requireAdmin: only req.user.role = 'admin' passes.
requireAdmin(p) == p.role = "admin"

\* the lowest free slot takes the next request
CanStart(i) ==
  /\ req[i].pc = "idle"
  /\ \A j \in ReqIds : j < i => req[j].pc # "idle"

\* the request's first statement has run and the handler awaits its next one
Arrive(i, op, p, b, pc, fields) ==
  /\ req' = [req EXCEPT ![i] =
       [f \in DOMAIN IdleReq |->
          IF f \in DOMAIN fields THEN fields[f]
          ELSE IF f = "op" THEN op
          ELSE IF f = "user" THEN p.id
          ELSE IF f = "role" THEN p.role
          ELSE IF f = "bookId" THEN b
          ELSE IF f = "pc" THEN pc
          ELSE IdleReq[f]]]
  /\ grp' = Started(op, p, b)
  /\ prev' = Before
  /\ resp' = NoResponse
  /\ page' = NoPage
  /\ UNCHANGED <<hist, auth>>

\* the request is answered by the middleware, by the handler's validation
\* or right after its first statement
Reject(op, p, b, code) ==
  /\ grp' = Answered(Started(op, p, b), code, 0)
  /\ prev' = Before
  /\ resp' = [op |-> op, user |-> p.id, role |-> p.role, book |-> b, code |-> code]
  /\ page' = NoPage
  /\ UNCHANGED <<req, hist, auth>>

\* res.status(code).json(...): the request in slot i is answered
Respond(i, code) ==
  /\ req' = [req EXCEPT ![i] = IdleReq]
  /\ grp' = Answered(grp, code, IF code = 200 THEN req[i].rec ELSE 0)
  /\ hist' = IF req[i].bookId \in BookIds
             THEN [hist EXCEPT ![req[i].bookId] = Alternate(@, req[i].op, code)]
             ELSE hist
  /\ resp' = [op |-> req[i].op, user |-> req[i].user, role |-> req[i].role,
              book |-> req[i].bookId, code |-> code]
  /\ page' = NoPage
  /\ UNCHANGED <<prev, auth>>

\* the handler goes on to its next statement
Goto(i, pc, fields) ==
  /\ req' = [req EXCEPT ![i] =
       [f \in DOMAIN IdleReq |->
          IF f \in DOMAIN fields THEN fields[f]
          ELSE IF f = "pc" THEN pc
          ELSE req[i][f]]]
  /\ resp' = NoResponse
  /\ page' = NoPage
  /\ UNCHANGED <<grp, prev, hist, auth>>

NoFields == [f \in {} |-> 0]

\* ------------------------------------------------ POST /api/books/:id/borrow
\* the SERIAL of borrow_records is not exhausted by the inserts to come
RecordsLeft ==
  recSeq + Cardinality({ j \in ReqIds : req[j].pc = "b_insert" }) < MaxRecords

\* dueDate = new Date(); dueDate.setDate(borrowedAt.getDate() + 7)
DueDate(borrowedAt, created) ==
  setDate(created, getDate(borrowedAt) + LOAN_DAYS)

\* a borrow that lets any existing book through
BorrowableAlways(status) == TRUE

\* if (book.status !== 'available') return res.status(400)
Borrowable(status) == status = "available"

\* verifyToken, then SELECT id, status FROM books WHERE id = $1, the two
\* checks and the computation of the dates, up to the INSERT being sent.
Borrow(i) ==
  /\ CanStart(i)
  /\ RecordsLeft
  /\ \E p \in Callers, b \in BookIds :
       IF ~verifyToken(p) THEN
         /\ Reject("borrow", p, b, 401)
         /\ UNCHANGED <<db, now, ticks>>
       ELSE IF books[b] = NoBook THEN
         /\ Reject("borrow", p, b, 404)
         /\ UNCHANGED <<db, now, ticks>>
       ELSE IF ~Borrowable(books[b]) THEN
         /\ Reject("borrow", p, b, 400)
         /\ UNCHANGED <<db, now, ticks>>
       ELSE
         \E t1 \in ClockReads :
           \E t2 \in { t \in ClockReads : t >= t1 } :
             /\ Tick(t2)
             /\ Arrive(i, "borrow", p, b, "b_insert",
                       [at |-> t1, dueDate |-> DueDate(t1, t2)])
             /\ UNCHANGED db

\* INSERT INTO borrow_records (user_id, book_id, borrowed_at, due_date)
BorrowInsert(i) ==
  /\ req[i].pc = "b_insert"
  /\ recSeq' = recSeq + 1
  /\ IF books[req[i].bookId] = NoBook THEN
       \* book_id REFERENCES books(id): the insert throws, the catch answers
       /\ Respond(i, 500)
       /\ UNCHANGED borrow_records
     ELSE
       /\ borrow_records' = borrow_records \cup
            { [ id |-> recSeq + 1, user_id |-> req[i].user,
                book_id |-> req[i].bookId, borrowed_at |-> req[i].at,
                due_date |-> req[i].dueDate, returned_at |-> NULL ] }
       /\ Goto(i, "b_update", [rec |-> recSeq + 1])
  /\ UNCHANGED <<books, bookSeq, now, ticks>>

\* UPDATE books SET status = 'borrowed' WHERE id = $1, then res.json
BorrowUpdate(i) ==
  /\ req[i].pc = "b_update"
  /\ SetStatus(req[i].bookId, "borrowed")
  /\ Respond(i, 200)
  /\ UNCHANGED <<bookSeq, borrow_records, recSeq, now, ticks>>

\* ------------------------------------------------ POST /api/books/:id/return
\* a return route that forgets the ownership check
MayReturnAnyone(role, userId, row) == TRUE

\* if (userRole !== 'admin' && borrow.user_id !== userId) return res.status(403)
MayReturn(role, userId, row) == role = "admin" \/ row.user_id = userId

\* verifyToken, then SELECT id, user_id FROM borrow_records WHERE book_id = $1
\* AND returned_at IS NULL ORDER BY borrowed_at DESC LIMIT 1, and the checks.
Return(i) ==
  /\ CanStart(i)
  /\ \E p \in Callers, b \in BookIds :
       IF ~verifyToken(p) THEN
         /\ Reject("return", p, b, 401)
         /\ UNCHANGED <<db, now, ticks>>
       ELSE IF ActiveRecords(b) = {} THEN
         /\ Reject("return", p, b, 400)
         /\ UNCHANGED <<db, now, ticks>>
       ELSE
         \E row \in LatestActive(b) :
           IF ~MayReturn(p.role, p.id, row) THEN
             /\ Reject("return", p, b, 403)
             /\ UNCHANGED <<db, now, ticks>>
           ELSE
             \E t \in ClockReads :
               /\ Tick(t)
               /\ Arrive(i, "return", p, b, "r_mark",
                         [borrow |-> row.id, at |-> t])
               /\ UNCHANGED db

\* an update that also moves the due date to the time of the return
MarkedAndRedated(r, at) == [r EXCEPT !.returned_at = at, !.due_date = at]

\* SET returned_at = $1: the row r after the update
Marked(r, at) == [r EXCEPT !.returned_at = at]

\* UPDATE borrow_records SET returned_at = $1 WHERE id = $2
ReturnMark(i) ==
  /\ req[i].pc = "r_mark"
  /\ borrow_records' =
       { IF r.id = req[i].borrow THEN Marked(r, req[i].at)
         ELSE r : r \in borrow_records }
  /\ Goto(i, "r_update", NoFields)
  /\ UNCHANGED <<books, bookSeq, recSeq, now, ticks>>

\* UPDATE books SET status = 'available' WHERE id = $1, then res.json
ReturnUpdate(i) ==
  /\ req[i].pc = "r_update"
  /\ SetStatus(req[i].bookId, "available")
  /\ Respond(i, 200)
  /\ UNCHANGED <<bookSeq, borrow_records, recSeq, now, ticks>>

\* -------------------------------------------------------- storage failures
\* pool.query rejects (connection lost, statement timeout) at the write the
\* borrow or return handler is waiting for: nothing is written, the
\* handler's catch answers 500
StorageError(i) ==
  /\ req[i].pc \in {"b_insert", "b_update", "r_mark", "r_update"}
  /\ Respond(i, 500)
  /\ UNCHANGED <<db, now, ticks>>

\* ----------------------------------------------------------- POST /api/books
\* const bookStatus = status || 'available'
bookStatus(status) == IF status = Omitted THEN "available" ELSE status

\* verifyToken, requireAdmin, the title/author check, then
\* INSERT INTO books (..., status) VALUES (..., bookStatus) RETURNING *
Create(i) ==
  /\ CanStart(i)
  /\ bookSeq < MaxBooks
  /\ \E p \in Callers :
       IF ~verifyToken(p) THEN
         /\ Reject("create", p, 0, 401)
         /\ UNCHANGED <<db, now, ticks>>
       ELSE IF ~requireAdmin(p) THEN
         /\ Reject("create", p, 0, 403)
         /\ UNCHANGED <<db, now, ticks>>
       ELSE
         \* if (!title || !author) return res.status(400)
         \/ /\ Reject("create", p, 0, 400)
            /\ UNCHANGED <<db, now, ticks>>
         \/ \E st \in StatusInputs :
              /\ bookSeq' = bookSeq + 1
              /\ books' = [books EXCEPT ![bookSeq + 1] = bookStatus(st)]
              /\ Reject("create", p, 0, 201)
              /\ UNCHANGED <<borrow_records, recSeq, now, ticks>>

\* -------------------------------------------------------- PUT /api/books/:id
\* verifyToken, requireAdmin, then SELECT * FROM books WHERE id = $1
Update(i) ==
  /\ CanStart(i)
  /\ \E p \in Callers, b \in BookIds :
       IF ~verifyToken(p) THEN Reject("update", p, b, 401)
       ELSE IF ~requireAdmin(p) THEN Reject("update", p, b, 403)
       ELSE IF books[b] = NoBook THEN Reject("update", p, b, 404)
       ELSE \E st \in StatusInputs :
              Arrive(i, "update", p, b, "u_update",
                     [status |-> st, orig |-> books[b]])
  /\ UNCHANGED <<db, now, ticks>>

\* status || original.status
mergedStatus(status, original) == IF status = Omitted THEN original ELSE status

\* UPDATE books SET ..., status = $6 WHERE id = $7 RETURNING *
UpdateWrite(i) ==
  /\ req[i].pc = "u_update"
  /\ SetStatus(req[i].bookId, mergedStatus(req[i].status, req[i].orig))
  /\ Respond(i, 200)
  /\ UNCHANGED <<bookSeq, borrow_records, recSeq, now, ticks>>

\* ----------------------------------------------------- DELETE /api/books/:id
\* verifyToken, requireAdmin, then SELECT id FROM books WHERE id = $1
Delete(i) ==
  /\ CanStart(i)
  /\ \E p \in Callers, b \in BookIds :
       IF ~verifyToken(p) THEN Reject("delete", p, b, 401)
       ELSE IF ~requireAdmin(p) THEN Reject("delete", p, b, 403)
       ELSE IF books[b] = NoBook THEN Reject("delete", p, b, 404)
       ELSE Arrive(i, "delete", p, b, "d_delete", NoFields)
  /\ UNCHANGED <<db, now, ticks>>

\* a foreign key that leaves the rows of a deleted book in place
NoCascade(b) == borrow_records

\* book_id INTEGER NOT NULL REFERENCES books(id) ON DELETE CASCADE: the rows
\* of borrow_records that remain when book b is deleted
Cascade(b) == { r \in borrow_records : r.book_id # b }

\* DELETE FROM books WHERE id = $1
DeleteExec(i) ==
  /\ req[i].pc = "d_delete"
  /\ books' = [books EXCEPT ![req[i].bookId] = NoBook]
  /\ borrow_records' = Cascade(req[i].bookId)
  /\ Respond(i, 200)
  /\ UNCHANGED <<bookSeq, recSeq, now, ticks>>

\* ------------------------------------------------------- GET /api/books/:id
\* SELECT b.*, br.due_date AS current_due_date FROM books b LEFT JOIN
\* borrow_records br ON br.book_id = b.id AND br.returned_at IS NULL
\* WHERE b.id = $1: the rows of the join; the route answers with one of them.
GetBookRows(b) ==
  IF books[b] = NoBook THEN {}
  ELSE IF ActiveRecords(b) = {}
  THEN { [status |-> books[b], current_due_date |-> NULL] }
  ELSE { [status |-> books[b], current_due_date |-> r.due_date] :
           r \in ActiveRecords(b) }

\* GET /:id (public): 404 when the join has no row, else res.json(rows[0]);
\* the query has no ORDER BY, so rows[0] is any row of the join
GetBook ==
  /\ \E b \in BookIds :
       IF GetBookRows(b) = {} THEN
         page' = [NoPage EXCEPT !.op = "get", !.book = b, !.code = 404]
       ELSE
         \E row \in GetBookRows(b) :
           page' = [NoPage EXCEPT !.op = "get", !.book = b, !.code = 200,
                                  !.rows = {row}]
  /\ resp' = NoResponse
  /\ UNCHANGED <<db, now, ticks, req, grp, prev, hist, auth>>

\* ----------------------------------------------------------- GET /api/books
\* Values of the status query parameter.
StatusFilters == { Omitted, "available", "borrowed" }

\* SELECT b.*, br.due_date AS current_due_date FROM books b LEFT JOIN
\* borrow_records br ON br.book_id = b.id AND br.returned_at IS NULL
\* [WHERE LOWER(b.status) = $1]: one row per book and matching record (br:
\* the record joined, 0 for the row of a book without one)
ListRows(filter) ==
  UNION { IF ActiveRecords(b) = {}
          THEN { [id |-> b, status |-> books[b], current_due_date |-> NULL, br |-> 0] }
          ELSE { [id |-> b, status |-> books[b], current_due_date |-> r.due_date,
                  br |-> r.id] : r \in ActiveRecords(b) }
          : b \in { c \in BookIds : /\ books[c] # NoBook
                                     /\ filter \in {Omitted, books[c]} } }

\* GET / (public): res.json({ count: rows.length, books: rows })
ListBooks ==
  /\ \E filter \in StatusFilters :
       page' = [NoPage EXCEPT !.op = "list", !.filter = filter, !.code = 200,
                              !.rows = ListRows(filter)]
  /\ resp' = NoResponse
  /\ UNCHANGED <<db, now, ticks, req, grp, prev, hist, auth>>

\* ------------------------------------------------- POST /api/auth/register
\* the lowest free slot takes the next register request
CanRegister(j) ==
  /\ reg[j].pc = "idle"
  /\ \A k \in RegIds : k < j => reg[k].pc # "idle"

\* the users SERIAL is not exhausted by the inserts to come
UsersLeft ==
  userSeq + Cardinality({ k \in RegIds : reg[k].pc = "g_insert" }) < MaxUsers - 1

\* const userRole = role === 'admin' ? 'admin' : 'student'
userRole(role) == IF role = "admin" THEN "admin" ELSE "student"

\* a users table in which no address is ever found taken
UsersByEmailNone(e) == {}

\* rows of users with email = e
UsersByEmail(e) == { u \in users : u.email = e }

\* rows of users with role = 'admin'
Admins == { u \in users : u.role = "admin" }

\* the input check, then SELECT id FROM users WHERE email = $1 and the
\* check of its result, up to the INSERT being sent
Register(j) ==
  /\ CanRegister(j)
  /\ UsersLeft
  /\ \/ \* if (!name || !email || !password) return res.status(400)
        /\ authResp' = [NoAuthResponse EXCEPT !.code = 400]
        /\ UNCHANGED reg
     \/ \E e \in Emails :
          IF UsersByEmail(e) # {} THEN
            /\ authResp' = [NoAuthResponse EXCEPT !.code = 400, !.email = e]
            /\ UNCHANGED reg
          ELSE
            \E role \in RoleInputs :
              /\ reg' = [reg EXCEPT ![j] =
                   [pc |-> "g_insert", email |-> e, role |-> userRole(role)]]
              /\ authResp' = NoAuthResponse
  /\ UNCHANGED <<lib, users, userSeq, seed, boots>>

\* INSERT INTO users (name, email, password_hash, role) ... RETURNING, then
\* jwt.sign({ id, role }) and res.status(201); email is UNIQUE, a duplicate
\* makes the insert throw and the catch answers 500
RegisterInsert(j) ==
  /\ reg[j].pc = "g_insert"
  /\ userSeq' = userSeq + 1
  /\ reg' = [reg EXCEPT ![j] = IdleReg]
  /\ IF UsersByEmail(reg[j].email) # {} THEN
       /\ authResp' = [NoAuthResponse EXCEPT !.code = 500, !.email = reg[j].email]
       /\ UNCHANGED users
     ELSE
       /\ users' = users \cup
            { [ id |-> userSeq + 1, email |-> reg[j].email, role |-> reg[j].role ] }
       /\ authResp' = [ code |-> 201, email |-> reg[j].email,
                        id |-> userSeq + 1, role |-> reg[j].role ]
  /\ UNCHANGED <<lib, seed, boots>>

\* ---------------------------------------------------------------- seedAdmin
\* SELECT id FROM users WHERE role = 'admin' LIMIT 1; a row: return
SeedSelect ==
  /\ seed = "s_select"
  /\ seed' = IF Admins # {} THEN "done" ELSE "s_insert"
  /\ authResp' = NoAuthResponse
  /\ UNCHANGED <<lib, users, userSeq, reg, boots>>

\* INSERT INTO users (...) VALUES ('System Admin', 'ybh@example.com', hash,
\* 'admin'); an error is caught and logged
SeedInsert ==
  /\ seed = "s_insert"
  /\ userSeq < MaxUsers
  /\ userSeq' = userSeq + 1
  /\ users' = IF UsersByEmail(SEED_EMAIL) # {} THEN users
              ELSE users \cup
                { [ id |-> userSeq + 1, email |-> SEED_EMAIL, role |-> "admin" ] }
  /\ seed' = "done"
  /\ authResp' = NoAuthResponse
  /\ UNCHANGED <<lib, reg, boots>>

\* the server process stops and is started again: the requests it was
\* serving are gone, the database stays, app.listen calls seedAdmin
Restart ==
  /\ boots < MaxBoots
  /\ boots' = boots + 1
  /\ seed' = "s_select"
  /\ reg' = [j \in RegIds |-> IdleReg]
  /\ authResp' = NoAuthResponse
  /\ UNCHANGED <<lib, users, userSeq>>

\* ------------------------------------------------------------------- spec
Next ==
  \E i \in ReqIds :
    \/ Borrow(i)
    \/ BorrowInsert(i)
    \/ BorrowUpdate(i)
    \/ Return(i)
    \/ ReturnMark(i)
    \/ ReturnUpdate(i)
    \/ Create(i)
    \/ Update(i)
    \/ UpdateWrite(i)
    \/ Delete(i)
    \/ DeleteExec(i)

Spec == Init /\ [][Next]_vars

\* the borrow and return routes on a catalogue an admin filled, while the
\* clock advances
NextClock ==
  \E i \in ReqIds :
    \/ Create(i)
    \/ Borrow(i)
    \/ BorrowInsert(i)
    \/ BorrowUpdate(i)
    \/ Return(i)
    \/ ReturnMark(i)
    \/ ReturnUpdate(i)

SpecClock == InitClock /\ [][NextClock]_vars

\* the borrow and return routes over a database connection that may fail
NextFault ==
  \E i \in ReqIds :
    \/ Create(i)
    \/ Borrow(i)
    \/ BorrowInsert(i)
    \/ BorrowUpdate(i)
    \/ Return(i)
    \/ ReturnMark(i)
    \/ ReturnUpdate(i)
    \/ StorageError(i)

SpecFault == Init /\ [][NextFault]_vars

\* the catalogue reads beside the borrow and return routes
NextRead ==
  \/ \E i \in ReqIds :
       \/ Create(i)
       \/ Borrow(i)
       \/ BorrowInsert(i)
       \/ BorrowUpdate(i)
       \/ Return(i)
       \/ ReturnMark(i)
       \/ ReturnUpdate(i)
  \/ ListBooks
  \/ GetBook

SpecRead == Init /\ [][NextRead]_vars

\* registration and the seeding of the default admin, from an empty database
NextUsers ==
  \/ \E j \in RegIds : Register(j)
  \/ \E j \in RegIds : RegisterInsert(j)
  \/ SeedSelect
  \/ SeedInsert
  \/ Restart

SpecUsers == InitUsers /\ [][NextUsers]_vars

\* ------------------------------------------------------------------ claims
\* rows of borrow_records for book b inserted after the SERIAL stood at n
InsertedSince(b, n) == { r \in borrow_records : r.book_id = b /\ r.id > n }

\* the period g is over and consisted of one request of kind op, sent with
\* a valid token
Single(g, op) == g.op = op /\ g.n = 1 /\ g.done = 1 /\ g.user # Anonymous.id

\* C1: in every reachable state every book has status 'borrowed' if and only
\* if exactly one borrow record of that book has returned_at = NULL.
C1_LoanInvariant ==
  \A b \in BookIds :
    books[b] # NoBook =>
      (books[b] = "borrowed" <=> Cardinality(ActiveRecords(b)) = 1)

\* C2: for every book id, at most one borrow record of that book has
\* returned_at = NULL, also while borrow and return requests interleave.
C2_AtMostOneActive ==
  \A b \in BookIds : Cardinality(ActiveRecords(b)) <= 1

\* C3: when N >= 2 borrow requests for the same available book run
\* concurrently (and nothing else does), exactly one is answered 200, the
\* other N-1 are answered 400, and exactly one borrow record is created.
C3_OneWinner ==
  (Quiet /\ grp.op = "borrow" /\ grp.avail /\ grp.n >= 2 /\ grp.done = grp.n) =>
    /\ grp.ok = 1
    /\ grp.rej = grp.n - 1
    /\ Cardinality(InsertedSince(grp.book, grp.seq0)) = 1

AnsweredOnArrival == resp'.code # 0 /\ req' = req

\* C5: a return request by an authenticated user B on a book whose active
\* borrow records all belong to other users is answered 403 and changes no
\* table when B is not an admin, and is admitted (its two updates follow,
\* then 200) when B is an admin; and every borrow record whose returned_at
\* gets set is set by a request of its borrower or of an admin.
C5_ReturnAuthorization ==
  [][ /\ \A b \in BookIds :
          ( /\ AnsweredOnArrival
            /\ resp'.op = "return" /\ resp'.book = b /\ resp'.role # "none"
            /\ ActiveRecords(b) # {}
            /\ \A r \in ActiveRecords(b) : r.user_id # resp'.user )
          => ( /\ resp'.role # "admin"
               /\ resp'.code = 403
               /\ UNCHANGED db )
      /\ \A i \in ReqIds :
          (req[i].pc = "r_update" /\ req'[i].pc = "idle") =>
            (resp'.op = "return" /\ resp'.code = 200)
      /\ \A r \in borrow_records :
          ( /\ r.returned_at = NULL
            /\ \E q \in borrow_records' : q.id = r.id /\ q.returned_at # NULL )
          => \E i \in ReqIds :
               /\ req[i].pc = "r_mark" /\ req'[i].pc = "r_update"
               /\ req[i].borrow = r.id
               /\ (req[i].role = "admin" \/ req[i].user = r.user_id)
    ]_vars

\* C5 witness: an admin who is not the borrower has closed the record and
\* is about to set the book available, right after a student who is not the
\* borrower was refused.
C5_Witness ==
  /\ \E i \in ReqIds :
       /\ req[i].pc = "r_update" /\ req[i].role = "admin"
       /\ \E r \in borrow_records :
            r.id = req[i].borrow /\ r.user_id # req[i].user /\ r.returned_at # NULL
  /\ resp.op = "return" /\ resp.code = 403 /\ resp.role = "student"

\* C6: for a book with status 'available', a successful borrow followed by
\* a successful return by the borrower, with no other request in between,
\* leaves the book 'available' and the record the borrow created with
\* returned_at set, and GET /:id then reports no current due date.
C6_RoundTrip ==
  (Quiet /\ Single(grp, "return") /\ grp.ok = 1
         /\ Single(prev, "borrow") /\ prev.ok = 1
         /\ prev.book = grp.book /\ prev.user = grp.user) =>
    /\ books[grp.book] = "available"
    /\ \E r \in borrow_records : r.id = prev.rec /\ r.returned_at # NULL
    /\ \A row \in GetBookRows(grp.book) : row.current_due_date = NULL

\* C7: every borrow record has due_date equal to borrowed_at plus 7 days,
\* at whatever time the borrow ran, and the dueDate a borrow answers with is
\* the due_date of the record it created.
C7_DueDateExact ==
  /\ \A r \in borrow_records :
       r.due_date = r.borrowed_at + LOAN_DAYS * TicksPerDay
  /\ \A i \in ReqIds : \A r \in borrow_records :
       (req[i].pc = "b_update" /\ r.id = req[i].rec) => r.due_date = req[i].dueDate

\* C8: for each book, successful borrows and successful returns alternate,
\* even when requests race: no two successful borrow answers follow each
\* other without a successful return answer in between, and no two
\* successful return answers without a successful borrow answer in between.
C8_Alternation ==
  \A b \in BookIds : hist[b] # "broken"

\* C9: after any admin update (PUT) the book is 'available' only if it has
\* no active borrow record and 'borrowed' only if it has one, whatever
\* status the request supplies.
C9_UpdateKeepsInvariant ==
  (resp.op = "update" /\ resp.code = 200 /\ books[resp.book] # NoBook) =>
    /\ books[resp.book] = "available" => ActiveRecords(resp.book) = {}
    /\ books[resp.book] = "borrowed" => Cardinality(ActiveRecords(resp.book)) = 1

\* C10: every book's status is 'available' or 'borrowed', whatever bodies
\* admins send to POST and PUT; a book created without a status is
\* 'available'.
C10_StatusDomain ==
  /\ \A b \in BookIds : books[b] \in {NoBook, "available", "borrowed"}
  /\ bookStatus(Omitted) = "available"

\* the routes behind verifyToken and requireAdmin
AdminOps == {"create", "update", "delete"}

\* C11: a create, update or delete request is answered 401 when it carries
\* no valid token and 403 when its principal is not an admin, and books and
\* borrow_records are unchanged by it; only an admin's request reaches the
\* statements of these routes or is answered with success; a borrow request
\* of an authenticated principal of any role is never answered 401 or 403.
C11_AdminGate ==
  [][ /\ (AnsweredOnArrival /\ resp'.op \in AdminOps /\ resp'.role = "none")
           => (resp'.code = 401 /\ UNCHANGED db)
      /\ (AnsweredOnArrival /\ resp'.op \in AdminOps
                            /\ resp'.role \notin {"none", "admin"})
           => (resp'.code = 403 /\ UNCHANGED db)
      /\ \A i \in ReqIds : req'[i].op \in AdminOps => req'[i].role = "admin"
      /\ (resp'.op \in AdminOps /\ resp'.code \in {200, 201})
           => resp'.role = "admin"
      /\ (resp'.op = "borrow" /\ resp'.role # "none")
           => resp'.code \notin {401, 403}
      /\ \A i \in ReqIds : req'[i].op = "borrow" => req'[i].role # "none"
    ]_vars

\* C11 witness: a student's delete of an existing book has just been
\* refused with 403 while a student's borrow of that book is under way.
C11_Witness ==
  /\ resp.op = "delete" /\ resp.code = 403 /\ resp.role = "student"
  /\ books[resp.book] # NoBook
  /\ \E i \in ReqIds : req[i].op = "borrow" /\ req[i].role = "student"
                       /\ req[i].bookId = resp.book

\* C12: when seedAdmin completes, the users table holds at least one user
\* with role 'admin', whatever users registered before; and seedAdmin
\* inserts no user when the table already holds an admin.
C12_SeedAdmin ==
  [][ (seed # "done" /\ seed' = "done") =>
        /\ \E u \in users' : u.role = "admin"
        /\ users' # users => Admins = {}
    ]_vars

\* C13: in no reachable state has a return request closed its borrow
\* record (returned_at set) while the book it returns still has status
\* 'borrowed': the two writes of a return take effect together.
C13_ReturnAtomic ==
  \A i \in ReqIds : \A r \in borrow_records :
    (req[i].pc = "r_update" /\ r.id = req[i].borrow /\ r.returned_at # NULL) =>
      books[req[i].bookId] # "borrowed"

\* C14: when a borrow request is answered 500, the borrow record it may
\* have inserted is not in the table (neither write survives).
C14_BorrowRollsBack ==
  [][ \A i \in ReqIds :
        ( /\ req[i].op = "borrow" /\ req'[i].pc = "idle"
          /\ resp'.op = "borrow" /\ resp'.code = 500 )
        => /\ \A r \in borrow_records' : r.id # req[i].rec
           /\ books'[req[i].bookId] = "available"
    ]_vars

\* C15: the returned_at of a borrow record is written at most once: no
\* return request writes it on a record whose returned_at is already set,
\* also when two return requests for the same book run concurrently.
C15_ReturnedOnce ==
  [][ \A i \in ReqIds : \A r \in borrow_records :
        ( /\ req[i].pc = "r_mark" /\ req'[i].pc = "r_update"
          /\ r.id = req[i].borrow )
        => r.returned_at = NULL
    ]_vars

\* C16: a borrow record, once in the table, is in the table ever after: no
\* return, admin update or admin delete removes it.
C16_RecordsOnlyGrow ==
  [][ \A r \in borrow_records : \E q \in borrow_records' : q.id = r.id ]_vars

\* C17: a borrow request of an authenticated caller that fails a check is
\* answered 404 when the book does not exist and 400 when the book's status
\* is not 'available', and no table changes; only a request for an available
\* book goes on to the insert.
C17_FailedBorrowNoEffect ==
  [][ /\ \A b \in BookIds :
          ( /\ AnsweredOnArrival
            /\ resp'.op = "borrow" /\ resp'.book = b /\ resp'.role # "none" )
          => /\ books[b] # "available"
             /\ resp'.code = IF books[b] = NoBook THEN 404 ELSE 400
             /\ UNCHANGED db
      /\ (resp'.op = "borrow" /\ resp'.code \in {404, 400}) => UNCHANGED db
      /\ \A i \in ReqIds :
          (req[i].pc = "idle" /\ req'[i].op = "borrow")
            => books[req'[i].bookId] = "available"
    ]_vars

\* C17 witness: a student's borrow of a book whose status is 'borrowed' has
\* just been refused with 400 and the book's only record is the earlier one.
C17_Witness ==
  /\ resp.op = "borrow" /\ resp.code = 400 /\ resp.role = "student"
  /\ books[resp.book] = "borrowed"
  /\ \E r \in borrow_records : r.user_id # resp.user /\ borrow_records = {r}

\* a return request of an authenticated caller for a book without active
\* borrow record is answered 400 and changes no table, and no return
\* request for such a book goes on to the updates
NoLoanRefused ==
  /\ \A b \in BookIds :
       ( /\ AnsweredOnArrival
         /\ resp'.op = "return" /\ resp'.book = b /\ resp'.role # "none"
         /\ ActiveRecords(b) = {} )
       => (resp'.code = 400 /\ UNCHANGED db)
  /\ \A i \in ReqIds :
       (req[i].pc = "idle" /\ req'[i].op = "return")
         => ActiveRecords(req'[i].bookId) # {}

\* after a successful return that ran alone, the book has no active borrow
\* record: a second return in sequence is refused
SecondReturnRefused ==
  (Quiet /\ Single(grp, "return") /\ grp.ok = 1) => ActiveRecords(grp.book) = {}

\* C18: a return request for a book that has no borrow record with
\* returned_at = NULL is answered 400, for every principal and whether or
\* not the book exists, and changes no borrow record and no book; and of two
\* returns of the same book in sequence the first succeeds and the second
\* is refused.
C18_ReturnNeedsActiveLoan ==
  [][ NoLoanRefused /\ SecondReturnRefused' ]_vars

\* the due date a read must report for book b
CurrentDueDates(b) ==
  IF ActiveRecords(b) = {} THEN {NULL}
  ELSE { r.due_date : r \in ActiveRecords(b) }

\* the body of the last catalogue read is right for the tables as they are
PageCorrect ==
  /\ page.op = "list" =>
       \A b \in BookIds :
         (books[b] # NoBook /\ page.filter \in {Omitted, books[b]}) =>
           /\ Cardinality({ row \in page.rows : row.id = b }) = 1
           /\ \A row \in page.rows :
                row.id = b => /\ row.status = books[b]
                              /\ row.current_due_date \in CurrentDueDates(b)
  /\ (page.op = "get" /\ books[page.book] # NoBook) =>
       /\ page.code = 200
       /\ Cardinality(page.rows) = 1
       /\ \A row \in page.rows : /\ row.status = books[page.book]
                                 /\ row.current_due_date \in CurrentDueDates(page.book)

\* C19: GET / and GET /:id report each book exactly once, with the due_date
\* of the book's borrow record with returned_at = NULL as current due date
\* when there is one and NULL otherwise (never the due date of a closed
\* record), and they change no table and no request.
C19_CatalogueReads ==
  [][ page'.op # "none" => (PageCorrect' /\ UNCHANGED <<db, req>>) ]_vars

\* C20: an admin update whose body carries no status leaves the book's
\* status as it is at the moment the UPDATE is applied, also when a borrow
\* or return of the book completed after the update read the book.
C20_OmittedStatusKept ==
  [][ \A i \in ReqIds :
        ( /\ req[i].pc = "u_update" /\ req'[i].pc = "idle"
          /\ req[i].status = Omitted )
        => books'[req[i].bookId] = books[req[i].bookId]
    ]_vars

\* C21: in every reachable state the book_id of every borrow record is the
\* id of a book in the catalogue, however borrow, return and admin delete
\* requests for the book interleave.
C21_RecordsReferToBooks ==
  \A r \in borrow_records : books[r.book_id] # NoBook

\* C21 witness: a borrow whose book was deleted between its SELECT and its
\* INSERT has just been answered 500, and the book had a borrow record
\* before the delete.
C21_Witness ==
  /\ resp.op = "borrow" /\ resp.code = 500
  /\ books[resp.book] = NoBook
  /\ recSeq = MaxRecords
  /\ borrow_records = {}

\* C22: no two users have the same email; a register request for an email
\* that already belongs to a user creates no user and is answered without
\* token, also when two register requests for the same new email run
\* concurrently; and a register request answered 201 created exactly one
\* user, the one its token names.
C22_UniqueEmail ==
  [][ /\ \A u \in users' : \A v \in users' : u.email = v.email => u.id = v.id
      /\ \A e \in Emails :
           (authResp'.code # 0 /\ authResp'.email = e /\ UsersByEmail(e) # {})
             => /\ users' = users
                /\ authResp'.code \in {400, 500}
                /\ authResp'.id = 0
      /\ authResp'.code = 201 =>
           /\ Cardinality(users') = Cardinality(users) + 1
           /\ \E u \in users' \ users :
                /\ u.email = authResp'.email
                /\ u.id = authResp'.id /\ u.role = authResp'.role
    ]_vars

\* C22 witness: of two concurrent register requests for the same new email
\* one has created the user and the other has just been refused by the
\* UNIQUE constraint.
C22_Witness ==
  /\ authResp.code = 500
  /\ authResp.email # SEED_EMAIL
  /\ Cardinality({ u \in users : u.email = authResp.email }) = 1

\* C23: a borrow record whose returned_at is set never has returned_at NULL
\* again, and the user_id, book_id, borrowed_at and due_date of a borrow
\* record never change while the record is in the table.
C23_RecordImmutable ==
  [][ \A r \in borrow_records : \A q \in borrow_records' :
        q.id = r.id =>
          /\ q.user_id = r.user_id
          /\ q.book_id = r.book_id
          /\ q.borrowed_at = r.borrowed_at
          /\ q.due_date = r.due_date
          /\ r.returned_at # NULL => q.returned_at # NULL
    ]_vars

\* C23 witness: a book has a closed borrow record and a later active one,
\* and a return request is about to close the active one.
C23_Witness ==
  \E r \in borrow_records : \E q \in borrow_records : \E i \in ReqIds :
    /\ r.book_id = q.book_id /\ r.id < q.id
    /\ r.returned_at # NULL /\ q.returned_at = NULL
    /\ req[i].pc = "r_mark" /\ req[i].borrow = q.id

====
